---- MODULE Spec2Model ----
(***************************************************************************)
(* Model of the makerspace project display repository:                     *)
(*   - the browser-side display cycler (display script, CONFIG with        *)
(*     cycleDuration / projectsPerPage), and                               *)
(*   - the scraper (scraper/scraper.js, class MakerspaceScraper).          *)
(* Strings are sequences of one-character strings, so that toLowerCase,    *)
(* trim, includes, replace and substring are computed, not assumed.        *)
(***************************************************************************)
EXTENDS Integers, Sequences, FiniteSets, TLC

VARIABLES
    \* ---- display cycler (browser side) ----
    allProjects,          \* let allProjects: the record list (record ids)
    currentProjectIndex,  \* let currentProjectIndex: the cursor
    isLoading,            \* let isLoading
    cycleTimer,           \* let cycleTimer: null (0) or an interval id
    activeTimers,         \* interval ids the browser has running
    hidden,               \* document.hidden
    becameHidden,         \* a visibilitychange has hidden this document, none has shown it since
    grid,                 \* content of #projects-grid
    startIndex,           \* argument of the last displayProjects call
    projectsToShow,       \* const projectsToShow of the last displayProjects call
    handler,              \* name of the last event handler that ran
    calls,                \* the calls that handler made, in order
    \* ---- scraper run (MakerspaceScraper.scrape) ----
    config,               \* CONFIG
    pc,                   \* where the run is
    currentPage,          \* let currentPage
    hasMorePages,         \* let hasMorePages
    allProjectUrls,       \* let allProjectUrls
    pageProjectUrls,      \* const pageProjectUrls of the page being processed
    pagination,           \* the pagination controls read on the last page
    pageError,            \* the error caught by catch (pageError), or "none"
    pagesFetched,         \* number of page.goto calls on listing pages
    firstEmptyFetch,      \* the fetch that first yielded zero links (0: none yet)
    stats,                \* this.stats
    projectUrls,          \* const projectUrls (what discoverProjects returned)
    index,                \* number of projectUrls entries processed
    projects,             \* this.projects
    extracted,            \* what scrapeProject returned for each processed url
    dataset,              \* content of data/projects.json written by this run
    matched,              \* the links matched by the selector that gave this page's urls
    recovery,             \* the interstitial check made on the last fetched page
    qrFiles,              \* names of the files written to CONFIG.qrCodePath
    browser,              \* this.browser: "null", "open" or "closed"
    thrown,               \* the errors thrown out of the steps of scrape(), in order
    exitCode,             \* <<>> or <<the status handed to process.exit>>
    \* ---- a single call of a pure function ----
    argTags,              \* project.tags handed to matchesTagFilter
    matchResult,          \* <<>> or <<the value matchesTagFilter returned>>
    argUrl,               \* url handed to generateProjectId
    idResult,             \* <<>> or <<the value generateProjectId returned>>
    tagCandidates,        \* texts of the tag links and of the "tagged ..." list of a page
    tagsResult            \* <<>> or <<project.tags after the tag extraction>>

displayVars == <<allProjects, currentProjectIndex, isLoading, cycleTimer,
                 activeTimers, hidden, becameHidden, grid, startIndex,
                 projectsToShow, handler, calls>>

scraperVars == <<pc, currentPage, hasMorePages, allProjectUrls, pageProjectUrls,
                 pagination, pageError, pagesFetched, firstEmptyFetch, stats,
                 projectUrls, index, projects, extracted, dataset, matched,
                 recovery, qrFiles, browser, thrown, exitCode>>

callVars == <<argTags, matchResult, argUrl, idResult, tagCandidates, tagsResult>>

vars == <<displayVars, config, scraperVars, callVars>>

----------------------------------------------------------------------------
(* Generic helpers *)

Range(s) == {s[i] : i \in 1..Len(s)}

Max2(a, b) == IF a >= b THEN a ELSE b

Min2(a, b) == IF a <= b THEN a ELSE b

MinOfSet(S) == CHOOSE x \in S : \A y \in S : x <= y

RECURSIVE SelectSeqBy(_, _)
\* Array.prototype.filter with a predicate given as a set of accepted values
SelectSeqBy(s, keep) ==
    IF s = <<>> THEN <<>>
    ELSE IF Head(s) \in keep
         THEN <<Head(s)>> \o SelectSeqBy(Tail(s), keep)
         ELSE SelectSeqBy(Tail(s), keep)

\* JavaScript null (timer ids and caps are positive)
null == 0

\* All sequences over S of length at most n
SeqUpTo(S, n) == UNION {[1..k -> S] : k \in 0..n}

----------------------------------------------------------------------------
(* Strings: a string is a sequence of one-character strings *)

UpperLetters ==
    <<"A", "B", "C", "D", "E", "F", "G", "H", "I", "J", "K", "L", "M", "N",
    "O", "P", "Q", "R", "S", "T", "U", "V", "W", "X", "Y", "Z">>

LowerLetters ==
    <<"a", "b", "c", "d", "e", "f", "g", "h", "i", "j", "k", "l", "m", "n",
    "o", "p", "q", "r", "s", "t", "u", "v", "w", "x", "y", "z">>

Digits == <<"0", "1", "2", "3", "4", "5", "6", "7", "8", "9">>

\* String.prototype.toLowerCase, one character
toLowerChar(c) ==
    IF c \in Range(UpperLetters)
    THEN LowerLetters[CHOOSE i \in 1..Len(UpperLetters) : UpperLetters[i] = c]
    ELSE c

toLowerCase(s) == [i \in 1..Len(s) |-> toLowerChar(s[i])]

isWhitespace(c) == c = " "

RECURSIVE trimStart(_)
trimStart(s) ==
    IF s # <<>> /\ isWhitespace(Head(s)) THEN trimStart(Tail(s)) ELSE s

RECURSIVE trimEnd(_)
trimEnd(s) ==
    IF s # <<>> /\ isWhitespace(s[Len(s)])
    THEN trimEnd(SubSeq(s, 1, Len(s) - 1))
    ELSE s

\* String.prototype.trim
trim(s) == trimEnd(trimStart(s))

\* String.prototype.indexOf, 0-based, -1 when absent
indexOf(s, sub) ==
    LET at == {i \in 0..(Len(s) - Len(sub)) : SubSeq(s, i + 1, i + Len(sub)) = sub}
    IN  IF at = {} THEN -1 ELSE MinOfSet(at)

\* String.prototype.includes
includes(s, sub) == indexOf(s, sub) >= 0

\* String.prototype.replace(pattern, '') with a string pattern: the first
\* occurrence only
removeFirst(s, pat) ==
    LET at == indexOf(s, pat)
    IN  IF at < 0 THEN s
        ELSE SubSeq(s, 1, at) \o SubSeq(s, at + Len(pat) + 1, Len(s))

\* String.prototype.substring(0, n)
substring0(s, n) == SubSeq(s, 1, Min2(n, Len(s)))

\* Array.prototype.includes on a list
listIncludes(list, x) == x \in Range(list)

----------------------------------------------------------------------------
(* Scraper configuration (CONFIG of scraper.js) *)

\* CONFIG.baseUrl
baseUrl ==
    <<"h", "t", "t", "p", "s", ":", "/", "/", "s", "i", "t", "e", "s", ".",
    "w", "i", "l", "l", "i", "a", "m", "s", ".", "e", "d", "u", "/", "m",
    "a", "k", "e", "r", "s", "p", "a", "c", "e", "/", "p", "r", "o", "j",
    "e", "c", "t", "s", "/">>

Str_makerspace == <<"m", "a", "k", "e", "r", "s", "p", "a", "c", "e">>

Str_fablab == <<"f", "a", "b", "l", "a", "b">>

Str_fab_lab == <<"f", "a", "b", " ", "l", "a", "b">>

Str_williams == <<"w", "i", "l", "l", "i", "a", "m", "s">>

Str_college == <<"c", "o", "l", "l", "e", "g", "e">>

\* CONFIG.excludedTags
excludedTags == <<Str_makerspace, Str_fablab, Str_fab_lab, Str_williams, Str_college>>

\* CONFIG.maxProjects in development mode
devMaxProjects == 5

\* CONFIG as the source sets it, NODE_ENV being development or not and CI
\* being 'true' or not
CONFIG(isDevelopment, isCI) ==
    [tagFilter |-> [enabled |-> TRUE, mode |-> "any",
                    requiredTags |-> <<Str_makerspace>>],
     excludedTags |-> excludedTags,
     isCI |-> isCI,
     maxProjects |-> IF isDevelopment THEN devMaxProjects ELSE null]

\* The environments of a run: npm run dev on a workstation (development mode,
\* CI unset) and npm start in the GitHub Actions workflow (CI = 'true')
Environments == {CONFIG(TRUE, FALSE), CONFIG(FALSE, TRUE)}

----------------------------------------------------------------------------
(* Tag filter *)

normalizeTag(tag) == trim(toLowerCase(tag))

\* matchesTagFilter with an exact match in place of the substring match
matchesTagFilterExact(cfg, tags) ==
    IF ~cfg.tagFilter.enabled THEN TRUE
    ELSE IF Len(tags) = 0 THEN FALSE
    ELSE LET projectTags == [i \in 1..Len(tags) |-> normalizeTag(tags[i])]
             requiredTags == [i \in 1..Len(cfg.tagFilter.requiredTags) |->
                                 normalizeTag(cfg.tagFilter.requiredTags[i])]
         IN  IF cfg.tagFilter.mode = "all"
             THEN \A r \in 1..Len(requiredTags) : listIncludes(projectTags, requiredTags[r])
             ELSE \E r \in 1..Len(requiredTags) : listIncludes(projectTags, requiredTags[r])

\* matchesTagFilter without the early return on an empty tag list
matchesTagFilterNoEmptyCheck(cfg, tags) ==
    IF ~cfg.tagFilter.enabled THEN TRUE
    ELSE LET projectTags == [i \in 1..Len(tags) |-> normalizeTag(tags[i])]
             requiredTags == [i \in 1..Len(cfg.tagFilter.requiredTags) |->
                                 normalizeTag(cfg.tagFilter.requiredTags[i])]
         IN  IF cfg.tagFilter.mode = "all"
             THEN \A r \in 1..Len(requiredTags) :
                      \E t \in 1..Len(projectTags) :
                          includes(projectTags[t], requiredTags[r])
             ELSE \E r \in 1..Len(requiredTags) :
                      \E t \in 1..Len(projectTags) :
                          includes(projectTags[t], requiredTags[r])

\* matchesTagFilter(project), project.tags being tags
matchesTagFilter(cfg, tags) ==
    IF ~cfg.tagFilter.enabled THEN TRUE
    ELSE IF Len(tags) = 0 THEN FALSE
    ELSE LET projectTags == [i \in 1..Len(tags) |-> normalizeTag(tags[i])]
             requiredTags == [i \in 1..Len(cfg.tagFilter.requiredTags) |->
                                 normalizeTag(cfg.tagFilter.requiredTags[i])]
         IN  IF cfg.tagFilter.mode = "all"
             THEN \A r \in 1..Len(requiredTags) :
                      \E t \in 1..Len(projectTags) :
                          includes(projectTags[t], requiredTags[r])
             ELSE \E r \in 1..Len(requiredTags) :
                      \E t \in 1..Len(projectTags) :
                          includes(projectTags[t], requiredTags[r])

\* shouldExcludeTag matching in one direction only: the tag contains an
\* excluded tag
shouldExcludeTagOneWay(cfg, tag) ==
    LET normalizedTag == normalizeTag(tag)
    IN  \E e \in 1..Len(cfg.excludedTags) :
            includes(normalizedTag, toLowerCase(cfg.excludedTags[e]))

\* shouldExcludeTag(tag)
shouldExcludeTag(cfg, tag) ==
    LET normalizedTag == normalizeTag(tag)
    IN  \E e \in 1..Len(cfg.excludedTags) :
            \/ includes(normalizedTag, toLowerCase(cfg.excludedTags[e]))
            \/ includes(toLowerCase(cfg.excludedTags[e]), normalizedTag)

RECURSIVE filterTags(_, _)
\* filterTags(tags): tags.filter(tag => !this.shouldExcludeTag(tag))
filterTags(cfg, tags) ==
    IF tags = <<>> THEN <<>>
    ELSE IF shouldExcludeTag(cfg, Head(tags))
         THEN filterTags(cfg, Tail(tags))
         ELSE <<Head(tags)>> \o filterTags(cfg, Tail(tags))

----------------------------------------------------------------------------
(* Tag extraction of scrapeProject *)

\* tagText.length < 50
tagLengthLimit == 50

\* The push without the includes test
pushTagNoDedup(tags, text) ==
    LET tagText == trim(text)
    IN  IF Len(tagText) > 0 /\ Len(tagText) < tagLengthLimit
        THEN Append(tags, tagText)
        ELSE tags

\* const tagText = $(el).text().trim();
\* if (tagText && tagText.length > 0 && tagText.length < 50
\*     && !project.tags.includes(tagText)) project.tags.push(tagText);
pushTag(tags, text) ==
    LET tagText == trim(text)
    IN  IF Len(tagText) > 0 /\ Len(tagText) < tagLengthLimit /\ ~listIncludes(tags, tagText)
        THEN Append(tags, tagText)
        ELSE tags

RECURSIVE pushTags(_, _)
\* .each / forEach over the candidates, in document order
pushTags(tags, texts) ==
    IF texts = <<>> THEN tags
    ELSE pushTags(pushTag(tags, Head(texts)), Tail(texts))

\* The tag links first, then the pieces of the "tagged ..." text
extractTags(candidates) ==
    pushTags(pushTags(<<>>, candidates.links), candidates.text)

noCandidates == [links |-> <<>>, text |-> <<>>]

----------------------------------------------------------------------------
(* Project identifiers *)

\* .substring(0, 50)
idMaxLength == 50

isAlphanumeric(c) ==
    c \in Range(UpperLetters) \cup Range(LowerLetters) \cup Range(Digits)

\* .replace(/\/$/, '')
stripTrailingSlash(s) ==
    IF s # <<>> /\ s[Len(s)] = "/" THEN SubSeq(s, 1, Len(s) - 1) ELSE s

\* .replace(/[^a-zA-Z0-9]/g, '-')
dashNonAlphanumeric(s) ==
    [i \in 1..Len(s) |-> IF isAlphanumeric(s[i]) THEN s[i] ELSE "-"]

\* generateProjectId without the toLowerCase step
generateProjectIdNoLower(url) ==
    substring0(dashNonAlphanumeric(stripTrailingSlash(removeFirst(url, baseUrl))),
               idMaxLength)

\* generateProjectId(url)
generateProjectId(url) ==
    substring0(
        toLowerCase(
            dashNonAlphanumeric(stripTrailingSlash(removeFirst(url, baseUrl)))),
        idMaxLength)

----------------------------------------------------------------------------
(* Display cycler *)

\* CONFIG.projectsPerPage
projectsPerPage == 9

\* Largest dataset the display is loaded with
MaxProjects == 11

\* Most records of a dataset that lack an essential field
MaxUnusable == 1

\* Interval ids available to setInterval
MaxTimers == 2

\* allProjects[NaN]: no record (record ids are positive)
Undefined == -1

TimerIds == 1..MaxTimers

EssentialFields == {"title", "url", "qrCode"}

\* A record of projects.json as the display reads it: which essential fields
\* are present (truthy)
RawRecord(i, missing) ==
    [id |-> i, title |-> "title" \notin missing,
     url |-> "url" \notin missing, qrCode |-> "qrCode" \notin missing]

\* The datasets (data.projects) a load may return
DataSets ==
    {[i \in 1..n |-> RawRecord(i, IF i \in bad THEN {f} ELSE {})] :
        <<n, bad, f>> \in
            {t \in (0..MaxProjects) \X (SUBSET (1..MaxProjects)) \X EssentialFields :
                /\ t[2] \subseteq 1..t[1]
                /\ Cardinality(t[2]) <= MaxUnusable \/ t[2] = 1..t[1]}}

\* The display state as one record, so that handlers compose like the calls
dstate ==
    [allProjects |-> allProjects, currentProjectIndex |-> currentProjectIndex,
     isLoading |-> isLoading, cycleTimer |-> cycleTimer,
     activeTimers |-> activeTimers, hidden |-> hidden,
     becameHidden |-> becameHidden, grid |-> grid,
     startIndex |-> startIndex, projectsToShow |-> projectsToShow,
     handler |-> handler, calls |-> calls]

SetDisplay(s) ==
    /\ allProjects' = s.allProjects
    /\ currentProjectIndex' = s.currentProjectIndex
    /\ isLoading' = s.isLoading
    /\ cycleTimer' = s.cycleTimer
    /\ activeTimers' = s.activeTimers
    /\ hidden' = s.hidden
    /\ becameHidden' = s.becameHidden
    /\ grid' = s.grid
    /\ startIndex' = s.startIndex
    /\ projectsToShow' = s.projectsToShow
    /\ handler' = s.handler
    /\ calls' = s.calls

\* A handler starts: the ghost log of its calls is reset
enter(s, name) == [s EXCEPT !.handler = name, !.calls = <<>>]

called(s, name) == [s EXCEPT !.calls = Append(@, name)]

\* loadProjects: the filter on title && url && qrCode
usable(data) ==
    LET keep == {data[i] : i \in {j \in 1..Len(data) :
                     data[j].title /\ data[j].url /\ data[j].qrCode}}
    IN  [i \in 1..Len(SelectSeqBy(data, keep)) |-> SelectSeqBy(data, keep)[i].id]

\* A slot taken without the modulo: allProjects[startIndex + i]
projectSlotSkipWrap(list, start, i) ==
    IF start + i < Len(list) THEN list[start + i + 1] ELSE Undefined

\* const projectIndex = (startIndex + i) % allProjects.length;
\* allProjects[projectIndex]   (NaN index, hence undefined, on an empty list)

projectSlot(list, start, i) ==
    IF Len(list) = 0 THEN Undefined
    ELSE list[((start + i) % Len(list)) + 1]

RECURSIVE fillSlots(_, _, _, _)
\* for (let i = 0; i < CONFIG.projectsPerPage; i++) projectsToShow.push(...)
fillSlots(list, start, i, acc) ==
    IF i < projectsPerPage
    THEN fillSlots(list, start, i + 1, Append(acc, projectSlot(list, start, i)))
    ELSE acc

\* The deferred render: createProjectCard(undefined) throws inside the timeout
\* callback, and then projectsGrid.innerHTML is not assigned
renderCards(oldGrid, toShow) ==
    IF Undefined \in Range(toShow) THEN oldGrid ELSE [kind |-> "cards", cards |-> toShow]

displayProjects(s, start) ==
    LET toShow == fillSlots(s.allProjects, start, 0, <<>>)
    IN  called([s EXCEPT !.startIndex = start,
                         !.projectsToShow = toShow,
                         !.grid = renderCards(@, toShow)],
               "displayProjects")

resetProgressBar(s) == called(s, "resetProgressBar")

\* setInterval returns an id no running interval has; ids only serve as
\* references, so the smallest id neither running nor held in cycleTimer is taken
freshTimer(s) == MinOfSet(TimerIds \ (s.activeTimers \cup {s.cycleTimer}))

canSetInterval(s) == TimerIds \ (s.activeTimers \cup {s.cycleTimer}) # {}

clearInterval(s, id) ==
    called([s EXCEPT !.activeTimers = @ \ {id}], "clearInterval")

startProjectCycle(s) ==
    LET s1 == displayProjects(s, s.currentProjectIndex)
        id == freshTimer(s1)
        s2 == called([s1 EXCEPT !.cycleTimer = id,
                                !.activeTimers = @ \cup {id}], "setInterval")
    IN  resetProgressBar(s2)

hideLoading(s) == called([s EXCEPT !.isLoading = FALSE], "hideLoading")

showError(s) ==
    called([hideLoading(s) EXCEPT !.grid = [kind |-> "error", cards |-> <<>>]],
           "showError")

\* An advance by two windows
advanceSkipsWindow(idx, n) ==
    IF idx + 2 * projectsPerPage >= n THEN 0 ELSE idx + 2 * projectsPerPage

\* An advance that wraps only past the end (> in place of >=)
advanceNoWrapAtEnd(idx, n) ==
    IF idx + projectsPerPage > n THEN 0 ELSE idx + projectsPerPage

\* currentProjectIndex += projectsPerPage; if (>= length) currentProjectIndex = 0

advance(idx, n) ==
    IF idx + projectsPerPage >= n THEN 0 ELSE idx + projectsPerPage

\* currentProjectIndex -= projectsPerPage; if (< 0) ... = Math.max(0, length - perPage)
retreat(idx, n) ==
    IF idx - projectsPerPage < 0 THEN Max2(0, n - projectsPerPage)
    ELSE idx - projectsPerPage

\* The setInterval callback of startProjectCycle
cycleTick(s) ==
    LET s1 == [s EXCEPT !.currentProjectIndex = advance(@, Len(s.allProjects))]
    IN  resetProgressBar(displayProjects(s1, s1.currentProjectIndex))

\* A restart that starts the new interval without clearing the old one
restartCycleTimerNoClear(s) ==
    IF s.cycleTimer # null THEN startProjectCycle(s) ELSE s

\* A restart that clears the running interval and starts none
restartCycleTimerClearOnly(s) ==
    IF s.cycleTimer # null
    THEN [clearInterval(s, s.cycleTimer) EXCEPT !.cycleTimer = null]
    ELSE s

\* "Restart cycle timer": if (cycleTimer) { clearInterval(cycleTimer); startProjectCycle(); }

restartCycleTimer(s) ==
    IF s.cycleTimer # null
    THEN startProjectCycle(clearInterval(s, s.cycleTimer))
    ELSE s

keydownForward(s) ==
    LET s1 == [s EXCEPT !.currentProjectIndex = advance(@, Len(s.allProjects))]
    IN  restartCycleTimer(resetProgressBar(displayProjects(s1, s1.currentProjectIndex)))

keydownBackward(s) ==
    LET s1 == [s EXCEPT !.currentProjectIndex = retreat(@, Len(s.allProjects))]
    IN  restartCycleTimer(resetProgressBar(displayProjects(s1, s1.currentProjectIndex)))

\* The visibilitychange handler, document.hidden being h
visibilityChanged(s, h) ==
    LET s0 == [s EXCEPT !.hidden = h, !.becameHidden = h]
    IN  IF h
        THEN IF s0.cycleTimer # null
             THEN [clearInterval(s0, s0.cycleTimer) EXCEPT !.cycleTimer = null]
             ELSE s0
        ELSE IF ~s0.isLoading /\ Len(s0.allProjects) > 0 /\ s0.cycleTimer = null
             THEN startProjectCycle(s0)
             ELSE s0

\* The DOMContentLoaded handler once loadProjects has resolved with data
loaded(s, data) ==
    LET s1 == [s EXCEPT !.allProjects = usable(data)]
    IN  IF Len(s1.allProjects) > 0
        THEN startProjectCycle(hideLoading(s1))
        ELSE showError(s1)

\* The state of a freshly loaded page, the document being hidden or not
freshPage(h) ==
    [allProjects |-> <<>>, currentProjectIndex |-> 0, isLoading |-> TRUE,
     cycleTimer |-> null, activeTimers |-> {}, hidden |-> h,
     becameHidden |-> FALSE,
     grid |-> [kind |-> "empty", cards |-> <<>>],
     startIndex |-> 0, projectsToShow |-> <<>>,
     handler |-> "none", calls |-> <<>>]

SetDisplayNow(s) ==
    /\ allProjects = s.allProjects
    /\ currentProjectIndex = s.currentProjectIndex
    /\ isLoading = s.isLoading
    /\ cycleTimer = s.cycleTimer
    /\ activeTimers = s.activeTimers
    /\ hidden = s.hidden
    /\ becameHidden = s.becameHidden
    /\ grid = s.grid
    /\ startIndex = s.startIndex
    /\ projectsToShow = s.projectsToShow
    /\ handler = s.handler
    /\ calls = s.calls

\* A step of the display leaves the other parts alone
DisplayOnly ==
    UNCHANGED <<config, pc, currentPage, hasMorePages, allProjectUrls,
                pageProjectUrls, pagination, pageError, pagesFetched,
                firstEmptyFetch, stats, projectUrls, index, projects, extracted,
                dataset, matched, recovery, qrFiles, browser, thrown, exitCode,
                argTags, matchResult, argUrl, idResult, tagCandidates, tagsResult>>

\* loadProjects resolves: DOMContentLoaded handler, lines after the await
LoadOk ==
    /\ isLoading
    /\ \E data \in DataSets :
          /\ Len(usable(data)) > 0 => canSetInterval(dstate)
          /\ SetDisplay(loaded(enter(dstate, "load"), data))
    /\ DisplayOnly

\* loadProjects rejects (fetch failure, HTTP error status, malformed JSON)
LoadFail ==
    /\ isLoading
    /\ SetDisplay(showError(enter(dstate, "loadFail")))
    /\ DisplayOnly

\* An interval fires its callback
TimerTick ==
    /\ activeTimers # {}
    /\ SetDisplay(cycleTick(enter(dstate, "tick")))
    /\ DisplayOnly

VisibilityChange ==
    /\ hidden \/ canSetInterval(dstate)
    /\ SetDisplay(visibilityChanged(enter(dstate, "visibility"), ~hidden))
    /\ DisplayOnly

KeyForward ==
    /\ canSetInterval(dstate)
    /\ SetDisplay(keydownForward(enter(dstate, "keyForward")))
    /\ DisplayOnly

KeyBackward ==
    /\ canSetInterval(dstate)
    /\ SetDisplay(keydownBackward(enter(dstate, "keyBackward")))
    /\ DisplayOnly

\* 'r' / 'R': location.reload() discards the page with its timers
KeyReload ==
    /\ SetDisplay(freshPage(hidden))
    /\ DisplayOnly

Resize ==
    /\ SetDisplay(
          LET s == enter(dstate, "resize")
          IN  IF ~s.isLoading /\ Len(s.allProjects) > 0
              THEN displayProjects(s, s.currentProjectIndex)
              ELSE s)
    /\ DisplayOnly

NextDisplay ==
    \/ LoadOk
    \/ LoadFail
    \/ TimerTick
    \/ VisibilityChange
    \/ KeyForward
    \/ KeyBackward
    \/ KeyReload
    \/ Resize


----------------------------------------------------------------------------
(* Scraper run: discoverProjects, the scrape loop, saveData *)

\* Listing pages the crawl may request
MaxPages == 3

\* Largest number a .page-numbers element shows
MaxPageNumber == 3

\* Most links one selector matches on a page
MaxLinksPerPage == 2

UrlLaserBox == baseUrl \o <<"l", "a", "s", "e", "r", "-", "b", "o", "x", "/">>

UrlLaserBoxUnderscore == baseUrl \o <<"l", "a", "s", "e", "r", "_", "b", "o", "x", "/">>

UrlRobotArm == baseUrl \o <<"R", "o", "b", "o", "t", "-", "A", "r", "m", "/">>

\* Detail-page urls the listing pages link to
Urls == {UrlLaserBox, UrlLaserBoxUnderscore, UrlRobotArm}

LinkLists == SeqUpTo(Urls, MaxLinksPerPage)

\* What the title selectors ($('title'), $('h1'), .entry-title, .post-title)
\* yield on the detail page at url; one page has no title at all
titleOf(url) ==
    CASE url = UrlLaserBox -> "Laser Box"
      [] url = UrlRobotArm -> "Robot Arm"
      [] OTHER -> ""

Str_Makerspace_Project == <<"M", "a", "k", "e", "r", "s", "p", "a", "c", "e", " ", "P", "r", "o", "j", "e", "c", "t">>

Str_Robotics == <<"R", "o", "b", "o", "t", "i", "c", "s">>

Str_Fab == <<"F", "a", "b">>

Str_Laser == <<"L", "a", "s", "e", "r">>

\* Tag lists scrapeProject may extract from a detail page
TagChoices ==
    {<<>>,
     <<Str_makerspace>>,
     <<Str_Robotics, Str_Makerspace_Project, Str_Fab, Str_Laser>>,
     <<Str_Robotics, Str_Fab>>}

\* Text of a .page-numbers element: empty, digits, or anything else
PageNumberTexts ==
    {[kind |-> "empty", value |-> 0], [kind |-> "word", value |-> 0]}
        \cup {[kind |-> "digits", value |-> k] : k \in 1..MaxPageNumber}

NaN == [kind |-> "NaN", value |-> 0]

NegativeInfinity == [kind |-> "-Infinity", value |-> 0]

Num(v) == [kind |-> "number", value |-> v]

\* isNaN(text) ? 0 : parseInt(text)   (isNaN('') is false, parseInt('') is NaN)
pageNumberOf(text) ==
    CASE text.kind = "word" -> Num(0)
      [] text.kind = "empty" -> NaN
      [] OTHER -> Num(text.value)

\* Math.max(...values)
mathMax(values) ==
    IF values = {} THEN NegativeInfinity
    ELSE IF NaN \in values THEN NaN
    ELSE Num(CHOOSE m \in {v.value : v \in values} :
                 \A v \in values : v.value <= m)

\* a > n for a JavaScript number a and an integer n
greaterThan(a, n) ==
    /\ a.kind = "number"
    /\ a.value > n

\* The push without the allProjectUrls.includes test
addNewUrlsNoDedup(links, all, page) == [all |-> all \o links, page |-> page \o links]

RECURSIVE addNewUrls(_, _, _)
\* if (!allProjectUrls.includes(fullUrl)) { pageProjectUrls.push; allProjectUrls.push }
addNewUrls(links, all, page) ==
    IF links = <<>> THEN [all |-> all, page |-> page]
    ELSE IF listIncludes(all, Head(links))
         THEN addNewUrls(Tail(links), all, page)
         ELSE addNewUrls(Tail(links), Append(all, Head(links)), Append(page, Head(links)))

RECURSIVE tryFallbacks(_, _, _)
\* for (const selector of fallbackSelectors): stop at the first selector that
\* yields a new url; selectorMatches holds, in the order of the chain, the valid
\* links each selector matches
tryFallbacks(selectorMatches, all, page) ==
    IF selectorMatches = <<>> \/ Len(page) > 0 THEN [all |-> all, page |-> page]
    ELSE LET r == addNewUrls(Head(selectorMatches), all, page)
         IN  tryFallbacks(Tail(selectorMatches), r.all, r.page)

\* let hasNext: next-page selectors, then the zero-links reset, then the
\* .page-numbers check made when hasNext is false
hasNext(nextControl, maxPageNumber, page, found) ==
    LET afterSelectors == nextControl
        afterZeroCheck == IF found = 0 THEN FALSE ELSE afterSelectors
    IN  IF ~afterZeroCheck THEN greaterThan(maxPageNumber, page) ELSE TRUE

\* allProjectUrls.slice(0, CONFIG.maxProjects) when the cap applies
\* A cap that keeps the last maxProjects urls instead of the first
capUrlsLast(cfg, all) ==
    IF cfg.maxProjects # null /\ Len(all) > cfg.maxProjects
    THEN SubSeq(all, Len(all) - cfg.maxProjects + 1, Len(all))
    ELSE all

capUrls(cfg, all) ==
    IF cfg.maxProjects # null /\ Len(all) > cfg.maxProjects
    THEN SubSeq(all, 1, cfg.maxProjects)
    ELSE all

\* validateProject(project)
validateProject(project) ==
    /\ project.title # ""
    /\ project.url # <<>>

\* The scrape loop with filterTags applied before the tag filter decides
keepProjectCleanFirst(cfg, list, project) ==
    LET cleaned == [project EXCEPT !.tags = filterTags(cfg, @)]
    IN  IF matchesTagFilter(cfg, cleaned.tags) THEN Append(list, cleaned) ELSE list

\* if (this.matchesTagFilter(project)) { project.tags = this.filterTags(...); push }
keepProject(cfg, list, project) ==
    IF matchesTagFilter(cfg, project.tags)
    THEN Append(list, [project EXCEPT !.tags = filterTags(cfg, @)])
    ELSE list

noPagination == [page |-> 0, next |-> FALSE, maxPageNumber |-> NegativeInfinity]

noDataset == [written |-> FALSE, totalProjects |-> 0, projects |-> <<>>,
              scrapingStats |-> [projectsFound |-> 0, projectsScraped |-> 0, errors |-> 0]]

noMatch == [selector |-> "none", links |-> <<>>]

noRecovery == [kind |-> "none", signature |-> FALSE, attempts |-> 0]

\* Listing page: the Cloudflare block sits inside if (process.env.CI === 'true');
\* it waits, re-reads and re-parses once when the signature is detected
listingRecoveries(cfg, signature) == IF cfg.isCI /\ signature THEN 1 ELSE 0

\* Detail page: the Cloudflare block of scrapeProject
projectRecoveries(signature) == IF signature THEN 1 ELSE 0

\* generateQRCode(url, projectId): the data url and the file <projectId>.png,
\* or null when QRCode.toDataURL or the file write rejects
generateQRCode(files, projectId, ok) ==
    IF ok THEN [qrCode |-> "dataURL", files |-> files \cup {projectId}]
    ELSE [qrCode |-> "null", files |-> files]

\* A step of the scraper run leaves the other parts alone
ScraperOnly == UNCHANGED <<allProjects, currentProjectIndex, isLoading, cycleTimer,
                           activeTimers, hidden, becameHidden, grid, startIndex,
                           projectsToShow,
                           handler, calls, config, argTags, matchResult, argUrl,
                           idResult, tagCandidates, tagsResult>>

ScraperStart ==
    /\ pc = "init"
    /\ currentPage = 1
    /\ hasMorePages = TRUE
    /\ allProjectUrls = <<>>
    /\ pageProjectUrls = <<>>
    /\ pagination = noPagination
    /\ pageError = "none"
    /\ pagesFetched = 0
    /\ firstEmptyFetch = 0
    /\ stats = [projectsFound |-> 0, projectsScraped |-> 0, errors |-> 0]
    /\ projectUrls = <<>>
    /\ index = 0
    /\ projects = <<>>
    /\ extracted = <<>>
    /\ dataset = noDataset
    /\ matched = noMatch
    /\ recovery = noRecovery
    /\ qrFiles = {}
    /\ browser = "null"
    /\ thrown = <<>>
    /\ exitCode = <<>>

\* await this.initBrowser() resolves
InitBrowser ==
    /\ ScraperOnly
    /\ pc = "init"
    /\ browser' = "open"
    /\ pc' = "connect"
    /\ UNCHANGED <<currentPage, hasMorePages, allProjectUrls, pageProjectUrls,
                   pagination, pageError, pagesFetched, firstEmptyFetch, stats,
                   projectUrls, index, projects, extracted, dataset, matched,
                   recovery, qrFiles, thrown, exitCode>>

\* initBrowser rethrows: puppeteer.launch rejected (this.browser still null) or
\* a later step of the set-up rejected (this.browser set)
InitBrowserFails ==
    /\ ScraperOnly
    /\ pc = "init"
    /\ \E launched \in BOOLEAN : browser' = IF launched THEN "open" ELSE "null"
    /\ thrown' = <<"initBrowser">>
    /\ pc' = "finally"
    /\ UNCHANGED <<currentPage, hasMorePages, allProjectUrls, pageProjectUrls,
                   pagination, pageError, pagesFetched, firstEmptyFetch, stats,
                   projectUrls, index, projects, extracted, dataset, matched,
                   recovery, qrFiles, exitCode>>

\* "Test connectivity first": page.goto('https://www.google.com'); a failure is
\* rethrown as 'Browser connectivity issues detected'
TestConnectivity ==
    /\ ScraperOnly
    /\ pc = "connect"
    /\ \E ok \in BOOLEAN :
          /\ thrown' = IF ok THEN thrown ELSE <<"connectivity">>
          /\ pc' = IF ok THEN "loop" ELSE "finally"
    /\ UNCHANGED <<currentPage, hasMorePages, allProjectUrls, pageProjectUrls,
                   pagination, pageError, pagesFetched, firstEmptyFetch, stats,
                   projectUrls, index, projects, extracted, dataset, matched,
                   recovery, qrFiles, browser, exitCode>>

\* page.goto / waitForSelector / page.content succeed for page currentPage; the
\* page may carry the interstitial signature
GotoPage ==
    /\ ScraperOnly
    /\ pc = "loop"
    /\ hasMorePages
    /\ currentPage <= MaxPages
    /\ pagesFetched' = pagesFetched + 1
    /\ pageProjectUrls' = <<>>
    /\ pageError' = "none"
    /\ \E signature \in BOOLEAN :
          recovery' = [kind |-> "listing", signature |-> signature,
                       attempts |-> listingRecoveries(config, signature)]
    /\ pc' = "extract"
    /\ UNCHANGED <<currentPage, hasMorePages, allProjectUrls, pagination,
                   firstEmptyFetch, stats, projectUrls, index, projects,
                   extracted, dataset, matched, qrFiles, browser, thrown,
                   exitCode>>

\* A catch (pageError) that stops the loop for "not found" only and goes
\* round again after any other error
GotoPageFailsRetries ==
    /\ ScraperOnly
    /\ pc = "loop"
    /\ hasMorePages
    /\ currentPage <= MaxPages
    /\ pagesFetched < MaxPages
    /\ \E kind \in {"notFound", "other"} :
          /\ pageError' = kind
          /\ hasMorePages' = (kind = "other")
    /\ pagesFetched' = pagesFetched + 1
    /\ UNCHANGED <<pc, currentPage, allProjectUrls, pageProjectUrls, pagination,
                   firstEmptyFetch, stats, projectUrls, index, projects,
                   extracted, dataset, matched, recovery, qrFiles, browser,
                   thrown, exitCode>>

\* page.goto throws: catch (pageError) stops the loop for "not found" and for
\* any other error alike
GotoPageFails ==
    /\ ScraperOnly
    /\ pc = "loop"
    /\ hasMorePages
    /\ currentPage <= MaxPages
    /\ \E kind \in {"notFound", "other"} : pageError' = kind
    /\ pagesFetched' = pagesFetched + 1
    /\ hasMorePages' = FALSE
    /\ UNCHANGED <<pc, currentPage, allProjectUrls, pageProjectUrls, pagination,
                   firstEmptyFetch, stats, projectUrls, index, projects,
                   extracted, dataset, matched, recovery, qrFiles, browser,
                   thrown, exitCode>>

\* $('.fl-post-feed-post').each(...): the links of the post containers
ExtractLinks ==
    /\ ScraperOnly
    /\ pc = "extract"
    /\ \E links \in LinkLists :
          LET r == addNewUrls(links, allProjectUrls, <<>>)
          IN  /\ allProjectUrls' = r.all
              /\ pageProjectUrls' = r.page
              /\ matched' = IF Len(r.page) = 0 THEN noMatch
                            ELSE [selector |-> "primary", links |-> links]
              /\ pc' = IF Len(r.page) = 0 THEN "fallback" ELSE "paginate"
    /\ recovery' = noRecovery
    /\ UNCHANGED <<currentPage, hasMorePages, pagination, pageError, pagesFetched,
                   firstEmptyFetch, stats, projectUrls, index, projects,
                   extracted, dataset, qrFiles, browser, thrown, exitCode>>

\* if (pageProjectUrls.length === 0): the fallback selector chain
TryFallbacks ==
    /\ ScraperOnly
    /\ pc = "fallback"
    \* the chain is cut to two selectors: only the first selector that yields a
    \* new url changes anything, and a later selector is read only when the
    \* earlier one yielded none (what the earlier one matched is then without
    \* effect, so the later one varies only when the earlier matched nothing)
    /\ \E narrower \in LinkLists :
       \E broader \in IF narrower = <<>> THEN LinkLists ELSE {<<>>} :
          LET r == tryFallbacks(<<narrower, broader>>, allProjectUrls, pageProjectUrls)
          IN  /\ allProjectUrls' = r.all
              /\ pageProjectUrls' = r.page
              /\ matched' = IF Len(r.page) = 0 THEN noMatch
                            ELSE [selector |-> "fallback",
                                  links |-> IF narrower = <<>> THEN broader
                                            ELSE narrower]
    /\ pc' = "paginate"
    /\ UNCHANGED <<currentPage, hasMorePages, pagination, pageError, pagesFetched,
                   firstEmptyFetch, stats, projectUrls, index, projects,
                   extracted, dataset, recovery, qrFiles, browser, thrown,
                   exitCode>>

\* "Check for next page": hasNext, hasMorePages = hasNext, currentPage++
CheckPagination ==
    /\ ScraperOnly
    /\ pc = "paginate"
    \* the .page-numbers elements: the page links 1..last and, possibly, an
    \* element without text and one with a word ("Next")
    /\ \E nextControl \in BOOLEAN, last \in 0..MaxPageNumber,
          others \in SUBSET {t \in PageNumberTexts : t.kind # "digits"} :
          LET texts == others \cup {t \in PageNumberTexts :
                                      t.kind = "digits" /\ t.value <= last}
              maxPageNumber == mathMax({pageNumberOf(t) : t \in texts})
          IN  /\ pagination' = [page |-> currentPage, next |-> nextControl,
                                 maxPageNumber |-> maxPageNumber]
              /\ hasMorePages' = hasNext(nextControl, maxPageNumber, currentPage,
                                         Len(pageProjectUrls))
    /\ currentPage' = IF hasMorePages' THEN currentPage + 1 ELSE currentPage
    /\ firstEmptyFetch' = IF firstEmptyFetch = 0 /\ Len(pageProjectUrls) = 0
                          THEN pagesFetched ELSE firstEmptyFetch
    \* the link selectors of this page have been read
    /\ matched' = noMatch
    /\ pc' = "loop"
    /\ UNCHANGED <<allProjectUrls, pageProjectUrls, pageError, pagesFetched, stats,
                   projectUrls, index, projects, extracted, dataset, recovery,
                   qrFiles, browser, thrown, exitCode>>

\* After the while loop: stats.projectsFound, the development cap, the return;
\* scrape() returns early when no url came back
FinishDiscovery ==
    /\ ScraperOnly
    /\ pc = "loop"
    /\ ~hasMorePages
    /\ stats' = [stats EXCEPT !.projectsFound = Len(allProjectUrls)]
    /\ projectUrls' = capUrls(config, allProjectUrls)
    /\ pc' = IF Len(projectUrls') = 0 THEN "finally" ELSE "scrape"
    \* the locals of discoverProjects are gone once it has returned
    /\ currentPage' = 1
    /\ allProjectUrls' = <<>>
    /\ pageProjectUrls' = <<>>
    /\ pagination' = noPagination
    /\ pageError' = "none"
    /\ pagesFetched' = 0
    /\ firstEmptyFetch' = 0
    /\ UNCHANGED <<hasMorePages, index, projects, extracted, dataset, matched,
                   recovery, qrFiles, browser, thrown, exitCode>>

\* scrapeProject(url): page.goto and page.content succeed for the detail page,
\* which may carry the interstitial signature
GotoProject ==
    /\ ScraperOnly
    /\ pc = "scrape"
    /\ index < Len(projectUrls)
    /\ \E signature \in BOOLEAN :
          recovery' = [kind |-> "project", signature |-> signature,
                       attempts |-> projectRecoveries(signature)]
    /\ pc' = "project"
    /\ UNCHANGED <<currentPage, hasMorePages, allProjectUrls, pageProjectUrls,
                   pagination, pageError, pagesFetched, firstEmptyFetch, stats,
                   projectUrls, index, projects, extracted, dataset, matched,
                   qrFiles, browser, thrown, exitCode>>

\* A scrapeProject whose catch does not count the error
ScrapeProjectFailsUncounted ==
    /\ ScraperOnly
    /\ pc \in {"scrape", "project"}
    /\ index < Len(projectUrls)
    /\ extracted' = Append(extracted,
                           [url |-> projectUrls[index + 1], scraped |-> FALSE, tags |-> <<>>])
    /\ index' = index + 1
    /\ recovery' = noRecovery
    /\ pc' = IF index' = Len(projectUrls) THEN "save" ELSE "scrape"
    /\ UNCHANGED <<currentPage, hasMorePages, allProjectUrls, pageProjectUrls,
                   pagination, pageError, pagesFetched, firstEmptyFetch, stats,
                   projectUrls, projects, dataset, matched, qrFiles, browser,
                   thrown, exitCode>>

\* A scrapeProject whose catch rethrows: the error leaves the scrape loop
ScrapeProjectFailsRethrows ==
    /\ ScraperOnly
    /\ pc \in {"scrape", "project"}
    /\ index < Len(projectUrls)
    /\ stats' = [stats EXCEPT !.errors = @ + 1]
    /\ thrown' = <<"scrapeProject">>
    /\ recovery' = noRecovery
    /\ pc' = "finally"
    /\ UNCHANGED <<currentPage, hasMorePages, allProjectUrls, pageProjectUrls,
                   pagination, pageError, pagesFetched, firstEmptyFetch,
                   projectUrls, index, projects, extracted, dataset, matched,
                   qrFiles, browser, exitCode>>

\* A failure that ends the scrape loop: the later urls are skipped
ScrapeProjectFailsStops ==
    /\ ScraperOnly
    /\ pc \in {"scrape", "project"}
    /\ index < Len(projectUrls)
    /\ stats' = [stats EXCEPT !.errors = @ + 1]
    /\ extracted' = Append(extracted,
                           [url |-> projectUrls[index + 1], scraped |-> FALSE, tags |-> <<>>])
    /\ index' = index + 1
    /\ recovery' = noRecovery
    /\ pc' = "save"
    /\ UNCHANGED <<currentPage, hasMorePages, allProjectUrls, pageProjectUrls,
                   pagination, pageError, pagesFetched, firstEmptyFetch,
                   projectUrls, projects, dataset, matched, qrFiles, browser,
                   thrown, exitCode>>

\* scrapeProject(url) throws while loading or reading the detail page
ScrapeProjectFails ==
    /\ ScraperOnly
    /\ pc \in {"scrape", "project"}
    /\ index < Len(projectUrls)
    /\ stats' = [stats EXCEPT !.errors = @ + 1]
    /\ extracted' = Append(extracted,
                           [url |-> projectUrls[index + 1], scraped |-> FALSE, tags |-> <<>>])
    /\ index' = index + 1
    /\ recovery' = noRecovery
    /\ pc' = IF index' = Len(projectUrls) THEN "save" ELSE "scrape"
    /\ UNCHANGED <<currentPage, hasMorePages, allProjectUrls, pageProjectUrls,
                   pagination, pageError, pagesFetched, firstEmptyFetch,
                   projectUrls, projects, dataset, matched, qrFiles, browser,
                   thrown, exitCode>>

\* The rest of the turn of the scrape loop: scrapeProject(url) extracts a
\* record, scrape() filters it
ScrapeProject ==
    /\ ScraperOnly
    /\ pc = "project"
    /\ index < Len(projectUrls)
    /\ recovery' = noRecovery
    /\ \E tagList \in TagChoices, qrOk \in BOOLEAN :
          LET id == generateProjectId(projectUrls[index + 1])
              qr == generateQRCode(qrFiles, id, qrOk)
              titleText == titleOf(projectUrls[index + 1])
              project ==
                  [id |-> id,
                   url |-> projectUrls[index + 1],
                   title |-> IF titleText # "" THEN titleText ELSE "Unknown Title",
                   tags |-> tagList,
                   qrCode |-> qr.qrCode]
          IN  /\ qrFiles' = qr.files
              /\ IF validateProject(project)
                 THEN /\ stats' = [stats EXCEPT !.projectsScraped = @ + 1]
                      /\ projects' = keepProject(config, projects, project)
                      /\ extracted' = Append(extracted,
                             [url |-> project.url, scraped |-> TRUE, tags |-> tagList])
                 ELSE /\ stats' = [stats EXCEPT !.errors = @ + 1]
                      /\ projects' = projects
                      /\ extracted' = Append(extracted,
                             [url |-> project.url, scraped |-> FALSE, tags |-> <<>>])
    /\ index' = index + 1
    /\ pc' = IF index' = Len(projectUrls) THEN "save" ELSE "scrape"
    /\ UNCHANGED <<currentPage, hasMorePages, allProjectUrls, pageProjectUrls,
                   pagination, pageError, pagesFetched, firstEmptyFetch,
                   projectUrls, dataset, matched, browser, thrown, exitCode>>

\* A saveData that resolves without writing the file
SaveDataNoWrite ==
    /\ ScraperOnly
    /\ pc = "save"
    /\ pc' = "finally"
    /\ UNCHANGED <<currentPage, hasMorePages, allProjectUrls, pageProjectUrls,
                   pagination, pageError, pagesFetched, firstEmptyFetch, stats,
                   projectUrls, index, projects, extracted, dataset, matched,
                   recovery, qrFiles, browser, thrown, exitCode>>

\* saveData() resolves
SaveData ==
    /\ ScraperOnly
    /\ pc = "save"
    /\ dataset' = [written |-> TRUE, totalProjects |-> Len(projects),
                   projects |-> projects, scrapingStats |-> stats]
    /\ pc' = "finally"
    /\ UNCHANGED <<currentPage, hasMorePages, allProjectUrls, pageProjectUrls,
                   pagination, pageError, pagesFetched, firstEmptyFetch, stats,
                   projectUrls, index, projects, extracted, matched, recovery,
                   qrFiles, browser, thrown, exitCode>>

\* saveData() rethrows: fs.ensureDir or fs.writeJson rejected
SaveDataFails ==
    /\ ScraperOnly
    /\ pc = "save"
    /\ thrown' = <<"saveData">>
    /\ pc' = "finally"
    /\ UNCHANGED <<currentPage, hasMorePages, allProjectUrls, pageProjectUrls,
                   pagination, pageError, pagesFetched, firstEmptyFetch, stats,
                   projectUrls, index, projects, extracted, dataset, matched,
                   recovery, qrFiles, browser, exitCode>>

\* A scrape() that closes the browser at the end of the try block, not in a
\* finally: nothing is closed once an error was thrown
CloseAndExitNoFinally ==
    /\ ScraperOnly
    /\ pc = "finally"
    /\ \E closeOk \in IF browser = "open" /\ thrown = <<>> THEN BOOLEAN ELSE {TRUE} :
          /\ browser' = IF browser = "open" /\ thrown = <<>> /\ closeOk
                        THEN "closed" ELSE browser
          /\ thrown' = IF closeOk THEN thrown ELSE Append(thrown, "close")
    /\ exitCode' = IF thrown' = <<>> THEN <<0>> ELSE <<1>>
    /\ pc' = "done"
    /\ UNCHANGED <<currentPage, hasMorePages, allProjectUrls, pageProjectUrls,
                   pagination, pageError, pagesFetched, firstEmptyFetch, stats,
                   projectUrls, index, projects, extracted, dataset, matched,
                   recovery, qrFiles>>

\* finally { if (this.browser) await this.browser.close() }, then the main
\* entry: process.exit(0) when scrape() resolved, process.exit(1) when it
\* rejected (a rejection of close() replaces the pending outcome)
CloseAndExit ==
    /\ ScraperOnly
    /\ pc = "finally"
    /\ \E closeOk \in IF browser = "open" THEN BOOLEAN ELSE {TRUE} :
          /\ browser' = IF browser = "open" /\ closeOk THEN "closed" ELSE browser
          /\ thrown' = IF closeOk THEN thrown ELSE Append(thrown, "close")
    /\ exitCode' = IF thrown' = <<>> THEN <<0>> ELSE <<1>>
    /\ pc' = "done"
    /\ UNCHANGED <<currentPage, hasMorePages, allProjectUrls, pageProjectUrls,
                   pagination, pageError, pagesFetched, firstEmptyFetch, stats,
                   projectUrls, index, projects, extracted, dataset, matched,
                   recovery, qrFiles>>

NextScraper ==
    \/ InitBrowser
    \/ InitBrowserFails
    \/ TestConnectivity
    \/ GotoPage
    \/ GotoPageFails
    \/ ExtractLinks
    \/ TryFallbacks
    \/ CheckPagination
    \/ FinishDiscovery
    \/ GotoProject
    \/ ScrapeProjectFails
    \/ ScrapeProject
    \/ SaveData
    \/ SaveDataFails
    \/ CloseAndExit

----------------------------------------------------------------------------
(* Single calls of matchesTagFilter and generateProjectId on bounded inputs *)

\* Longest tag of the bounded tag lists
MaxTagLength == 2

\* Most tags of a bounded tag list
MaxTags == 1

\* Longest path of the bounded urls
MaxPathLength == 3

\* Most repetitions of a path segment in a long url
MaxSegments == 4

TagAlphabet == {"a", "b", "A", " "}

TagStrings == SeqUpTo(TagAlphabet, MaxTagLength)

\* project.tags of the call
TagLists ==
    SeqUpTo(TagStrings, MaxTags)
        \cup {<<Str_Makerspace_Project, Str_Robotics>>, <<Str_Robotics>>}

\* CONFIG.tagFilter.requiredTags of the call
RequiredTagLists ==
    {<<>>, <<Str_makerspace>>, <<<<"a">>>>, <<<<"A", " ">>>>, <<<<"a", "b">>>>,
     <<<<"a">>, <<"b">>>>, <<<<" ", "b">>, <<"b", "a">>>>, <<<<>>>>}

TagFilterConfigs ==
    {[CONFIG(FALSE, FALSE) EXCEPT !.tagFilter = [enabled |-> e, mode |-> m, requiredTags |-> r]] :
        <<e, m, r>> \in BOOLEAN \X {"any", "all"} \X RequiredTagLists}

PathAlphabet == {"a", "Z", "7", "-", "/", "_"}

PathSegment == <<"L", "a", "s", "e", "r", "_", "C", "u", "t", "-", "B", "o", "x", "/">>

RECURSIVE repeated(_, _)
repeated(s, k) == IF k = 0 THEN <<>> ELSE s \o repeated(s, k - 1)

UrlPrefixes == {baseUrl, <<>>, <<"h", "t", "t", "p", ":", "/", "/", "x", ".", "i", "o", "/", "p", "r", "o", "j", "e", "c", "t", "s", "/">>}

\* url of the call
UrlInputs ==
    {prefix \o path : prefix \in UrlPrefixes,
                      path \in SeqUpTo(PathAlphabet, MaxPathLength)
                                   \cup {repeated(PathSegment, k) : k \in 1..MaxSegments}}

\* Most tag links of a detail page
MaxLinkTags == 2

\* Most pieces of the "tagged ..." text of a detail page
MaxTextTags == 1

\* Texts of tag candidates: empty, blank, short, padded, and of lengths around
\* the limit
CandidateTexts ==
    {<<>>, <<" ">>, Str_Laser, <<" ">> \o Str_Laser \o <<" ">>}
        \cup {repeated(<<"x">>, k) : k \in (tagLengthLimit - 1)..(tagLengthLimit + 1)}

CandidateLists ==
    {[links |-> l, text |-> t] : l \in SeqUpTo(CandidateTexts, MaxLinkTags),
                                 t \in SeqUpTo(CandidateTexts, MaxTextTags)}

CallsIdle ==
    /\ argTags = <<>>
    /\ matchResult = <<>>
    /\ argUrl = <<>>
    /\ idResult = <<>>
    /\ tagCandidates = noCandidates
    /\ tagsResult = <<>>

DisplayIdle == SetDisplayNow(freshPage(FALSE))

InitTagFilter ==
    /\ DisplayIdle
    /\ ScraperStart
    /\ config \in TagFilterConfigs
    /\ argTags \in TagLists
    /\ matchResult = <<>>
    /\ argUrl = <<>>
    /\ idResult = <<>>
    /\ tagCandidates = noCandidates
    /\ tagsResult = <<>>

CallMatchesTagFilter ==
    /\ matchResult = <<>>
    /\ matchResult' = <<matchesTagFilter(config, argTags)>>
    /\ UNCHANGED <<displayVars, config, scraperVars, argTags, argUrl, idResult,
                   tagCandidates, tagsResult>>

NextTagFilter == CallMatchesTagFilter

SpecTagFilter == InitTagFilter /\ [][NextTagFilter]_vars

InitProjectId ==
    /\ DisplayIdle
    /\ ScraperStart
    /\ config = CONFIG(FALSE, FALSE)
    /\ argTags = <<>>
    /\ matchResult = <<>>
    /\ argUrl \in UrlInputs
    /\ idResult = <<>>
    /\ tagCandidates = noCandidates
    /\ tagsResult = <<>>

CallGenerateProjectId ==
    /\ idResult = <<>>
    /\ idResult' = <<generateProjectId(argUrl)>>
    /\ UNCHANGED <<displayVars, config, scraperVars, argTags, matchResult, argUrl,
                   tagCandidates, tagsResult>>

NextProjectId == CallGenerateProjectId

SpecProjectId == InitProjectId /\ [][NextProjectId]_vars

InitTagExtraction ==
    /\ DisplayIdle
    /\ ScraperStart
    /\ config = CONFIG(FALSE, FALSE)
    /\ argTags = <<>>
    /\ matchResult = <<>>
    /\ argUrl = <<>>
    /\ idResult = <<>>
    /\ tagCandidates \in CandidateLists
    /\ tagsResult = <<>>

CallExtractTags ==
    /\ tagsResult = <<>>
    /\ tagsResult' = <<extractTags(tagCandidates)>>
    /\ UNCHANGED <<displayVars, config, scraperVars, argTags, matchResult, argUrl,
                   idResult, tagCandidates>>

NextTagExtraction == CallExtractTags

SpecTagExtraction == InitTagExtraction /\ [][NextTagExtraction]_vars

----------------------------------------------------------------------------
(* Specifications of the scraper run and of the display *)

Init ==
    /\ DisplayIdle
    /\ CallsIdle
    /\ config \in Environments
    /\ ScraperStart

Next == NextScraper

Spec == Init /\ [][Next]_vars

InitDisplay ==
    /\ \E h \in BOOLEAN : SetDisplayNow(freshPage(h))
    /\ CallsIdle
    /\ config = CONFIG(FALSE, FALSE)
    /\ ScraperStart

SpecDisplay ==
    InitDisplay /\ [][NextDisplay]_vars

----------------------------------------------------------------------------
(* The cycle left to its timer: the document is visible, no key is pressed *)

\* Largest dataset of a timer-driven cycle (five windows)
MaxCycleProjects == 37

\* loadProjects resolves with n records, all of them usable
LoadAllUsable ==
    /\ isLoading
    /\ \E n \in 0..MaxCycleProjects :
          LET data == [i \in 1..n |-> RawRecord(i, {})]
          IN  /\ Len(usable(data)) > 0 => canSetInterval(dstate)
              /\ SetDisplay(loaded(enter(dstate, "load"), data))
    /\ DisplayOnly

InitCycle ==
    /\ SetDisplayNow(freshPage(FALSE))
    /\ CallsIdle
    /\ config = CONFIG(FALSE, FALSE)
    /\ ScraperStart

NextCycle ==
    \/ LoadAllUsable
    \/ LoadFail
    \/ TimerTick

\* setInterval keeps firing its callback every CONFIG.cycleDuration
SpecCycle == InitCycle /\ [][NextCycle]_vars /\ WF_vars(TimerTick)

----------------------------------------------------------------------------
(* The return of discoverProjects under the development cap: the listing
   loop has ended with n urls collected, n going past CONFIG.maxProjects *)

\* Largest number of urls collected by the listing loop
MaxDiscovered == 7

\* The detail-page url of the i-th project of the site
NumberedUrl(i) == baseUrl \o <<"p", Digits[i + 1], "/">>

\* The collected list: n distinct urls, in the order of the site or in the
\* reverse order
DiscoveredLists ==
    {[i \in 1..n |-> NumberedUrl(i)] : n \in 0..MaxDiscovered}
        \cup {[i \in 1..n |-> NumberedUrl(MaxDiscovered + 1 - i)] : n \in 0..MaxDiscovered}

\* State of a run whose while loop has just ended with the list `all`
InitCap ==
    /\ DisplayIdle
    /\ CallsIdle
    /\ config \in Environments
    /\ pc = "loop"
    /\ currentPage = 1
    /\ hasMorePages = FALSE
    /\ allProjectUrls \in DiscoveredLists
    /\ pageProjectUrls = <<>>
    /\ pagination = noPagination
    /\ pageError = "none"
    /\ pagesFetched = 1
    /\ firstEmptyFetch = 0
    /\ stats = [projectsFound |-> 0, projectsScraped |-> 0, errors |-> 0]
    /\ projectUrls = <<>>
    /\ index = 0
    /\ projects = <<>>
    /\ extracted = <<>>
    /\ dataset = noDataset
    /\ matched = noMatch
    /\ recovery = noRecovery
    /\ qrFiles = {}
    /\ browser = "open"
    /\ thrown = <<>>
    /\ exitCode = <<>>

\* The detail pages of the numbered urls are fetched and fail to load; the run
\* then saves and exits
NextCap ==
    \/ FinishDiscovery
    \/ GotoProject
    \/ ScrapeProjectFails
    \/ SaveData
    \/ CloseAndExit

SpecCap == InitCap /\ [][NextCap]_vars

----------------------------------------------------------------------------
(* Properties of the display cycler, checked under SpecDisplay *)

\* Position of the first occurrence of x in s (0 when absent)
FirstIndex(s, x) ==
    IF x \in Range(s) THEN MinOfSet({i \in 1..Len(s) : s[i] = x}) ELSE 0

\* C3: on a non-empty record list of length n, displayProjects(s) builds and
\* renders exactly projectsPerPage entries, the i-th being record (s + i) mod n
\* (records repeat when n is smaller than the window).
C3_WindowWraps ==
    ("displayProjects" \in Range(calls) /\ Len(allProjects) > 0) =>
        /\ startIndex \in 0..(Len(allProjects) - 1)
        /\ Len(projectsToShow) = projectsPerPage
        /\ \A i \in 0..(projectsPerPage - 1) :
              projectsToShow[i + 1] =
                  allProjects[((startIndex + i) % Len(allProjects)) + 1]
        /\ grid = [kind |-> "cards", cards |-> projectsToShow]

\* n = 5, W = 9, s = 0 gives indices 0,1,2,3,4,0,1,2,3
C3_Witness ==
    /\ "displayProjects" \in Range(calls)
    /\ allProjects = <<1, 2, 3, 4, 5>>
    /\ startIndex = 0
    /\ projectsToShow = <<1, 2, 3, 4, 5, 1, 2, 3, 4>>

\* C4: an advance (timer tick or forward key) sets the cursor to cursor + W
\* when that is below the record count n and to 0 otherwise; and with a
\* non-empty record list 0 <= cursor < n holds in every reachable state.
C4_CursorInRange ==
    Len(allProjects) > 0 => currentProjectIndex \in 0..(Len(allProjects) - 1)

C4_AdvanceStep ==
    (TimerTick \/ KeyForward) =>
        currentProjectIndex' =
            IF currentProjectIndex + projectsPerPage < Len(allProjects)
            THEN currentProjectIndex + projectsPerPage
            ELSE 0

C4_CursorWraps == [][C4_AdvanceStep]_vars /\ []C4_CursorInRange

\* An advance has put the cursor on the last record (n - 1 with n = W + 1):
\* the next advance is the wrap to 0
C4_Witness ==
    /\ handler \in {"tick", "keyForward"}
    /\ Len(allProjects) = projectsPerPage + 1
    /\ currentProjectIndex = Len(allProjects) - 1

\* C5: at most one interval is running, it is the one cycleTimer holds, and a
\* step that starts an interval while one is running clears that one first.
C5_OneTimer ==
    /\ Cardinality(activeTimers) <= 1
    /\ activeTimers \subseteq {cycleTimer}

C5_StartStep ==
    (activeTimers' \ activeTimers # {} /\ activeTimers # {}) =>
        /\ activeTimers \cap activeTimers' = {}
        /\ FirstIndex(calls', "clearInterval") > 0
        /\ FirstIndex(calls', "clearInterval") < FirstIndex(calls', "setInterval")

C5_SingleTimer == []C5_OneTimer /\ [][C5_StartStep]_vars

\* A key press has restarted the cycle: old interval cleared, one new running
C5_Witness ==
    /\ handler = "keyForward"
    /\ "clearInterval" \in Range(calls)
    /\ "setInterval" \in Range(calls)
    /\ activeTimers = {cycleTimer}

\* C6: with zero usable records after the load, the error panel is shown,
\* no interval is started and displayProjects is not invoked on the empty list.
C6_EmptyStaysHalted ==
    (~isLoading /\ Len(allProjects) = 0) =>
        /\ grid.kind = "error"
        /\ cycleTimer = null
        /\ activeTimers = {}
        /\ "displayProjects" \notin Range(calls)

\* C16: from the moment the document becomes hidden until it is visible again
\* no cycle timer is active, and when it becomes visible with data loaded and
\* a non-empty record list, cycling is active with exactly one timer.
C16_PausedWhileHidden ==
    /\ becameHidden => activeTimers = {}
    /\ (handler = "visibility" /\ ~hidden /\ ~isLoading /\ Len(allProjects) > 0) =>
          /\ cycleTimer # null
          /\ activeTimers = {cycleTimer}

\* C20: a forward or backward key press moves the cursor by one window; when
\* an interval is running it is cleared and exactly one new interval is
\* started, and when none is running the key press starts none.
C20_KeyStep ==
    handler' \in {"keyForward", "keyBackward"} =>
        LET n == Len(allProjects)
            forward == IF currentProjectIndex + projectsPerPage >= n
                       THEN 0 ELSE currentProjectIndex + projectsPerPage
            backward == IF currentProjectIndex - projectsPerPage >= 0
                        THEN currentProjectIndex - projectsPerPage
                        ELSE IF n > projectsPerPage THEN n - projectsPerPage ELSE 0
            started == {i \in 1..Len(calls') : calls'[i] = "setInterval"}
        IN  /\ currentProjectIndex' = IF handler' = "keyForward" THEN forward ELSE backward
            /\ startIndex' = currentProjectIndex'
            /\ IF activeTimers # {}
               THEN /\ activeTimers \cap activeTimers' = {}
                    /\ cycleTimer' # null
                    /\ activeTimers' = {cycleTimer'}
                    /\ Cardinality(started) = 1
                    /\ FirstIndex(calls', "clearInterval") > 0
                    /\ FirstIndex(calls', "clearInterval") < FirstIndex(calls', "setInterval")
               ELSE /\ activeTimers' = {}
                    /\ cycleTimer' = cycleTimer
                    /\ started = {}

C20_KeyRestartsTimer == [][C20_KeyStep]_vars

\* A backward key press at the first window of a running cycle has wrapped to
\* the last window and restarted the interval
C20_Witness ==
    /\ handler = "keyBackward"
    /\ Len(allProjects) > projectsPerPage
    /\ currentProjectIndex = Len(allProjects) - projectsPerPage
    /\ "clearInterval" \in Range(calls)
    /\ activeTimers = {cycleTimer}

----------------------------------------------------------------------------
(* Properties of the timer-driven cycle, checked under SpecCycle *)

\* The cursor is at the start of window w and every record of that window
\* (records w * projectsPerPage ... w * projectsPerPage + 8, as far as the
\* list goes) is in the rendered grid
WindowShown(w) ==
    /\ currentProjectIndex = projectsPerPage * w
    /\ grid.kind = "cards"
    /\ \A i \in 1..Len(allProjects) :
          (i - 1) \div projectsPerPage = w => allProjects[i] \in Range(grid.cards)

\* The cursor of a running cycle is the start of a window of the list
C25_CursorOnWindow ==
    activeTimers # {} =>
        /\ currentProjectIndex % projectsPerPage = 0
        /\ currentProjectIndex < Len(allProjects)
        /\ startIndex = currentProjectIndex

\* C25: with a non-empty list of n records and the timer firing again and
\* again, whenever the cursor is 0 every window of the list, and with it every
\* record 0..n-1, comes to be rendered at a cursor position reached by
\* advancing from 0, so every record is displayed again and again.
C25_EveryRecordShown ==
    /\ []C25_CursorOnWindow
    /\ \A w \in 0..((MaxCycleProjects - 1) \div projectsPerPage) :
          (activeTimers # {} /\ currentProjectIndex = 0
                             /\ w * projectsPerPage < Len(allProjects))
              ~> WindowShown(w)

\* A tick has put the cursor on the last window of 28 records, which shows the
\* last record and wraps to the first ones
C25_Witness ==
    /\ handler = "tick"
    /\ Len(allProjects) = 3 * projectsPerPage + 1
    /\ currentProjectIndex = 3 * projectsPerPage
    /\ grid.kind = "cards"
    /\ grid.cards[1] = allProjects[Len(allProjects)]
    /\ grid.cards[2] = allProjects[1]

----------------------------------------------------------------------------
(* Properties of discoverProjects and the scrape loop, checked under Spec *)

\* C1: after listing page N has been processed the loop goes on to page N + 1
\* if and only if page N yielded at least one link and a next control is
\* present or a numbered control shows a number greater than N; a page that
\* yielded zero links never leads to a further fetch.
C1_ContinueDecision ==
    (pc = "loop" /\ pagination.page > 0 /\ pageError = "none") =>
        ((hasMorePages /\ currentPage = pagination.page + 1) <=>
            /\ Len(pageProjectUrls) > 0
            /\ \/ pagination.next
               \/ greaterThan(pagination.maxPageNumber, pagination.page))

\* C2: once a listing page has yielded zero links, the pagination loop halts
\* within one additional page fetch, whatever controls the pages carry.
C2_HaltsAfterEmptyPage ==
    firstEmptyFetch > 0 => pagesFetched <= firstEmptyFetch + 1

NoDuplicates(s) == \A i, j \in 1..Len(s) : i # j => s[i] # s[j]

IsPrefix(p, s) == Len(p) <= Len(s) /\ SubSeq(s, 1, Len(p)) = p

IsSuffix(p, s) == Len(p) <= Len(s) /\ SubSeq(s, Len(s) - Len(p) + 1, Len(s)) = p

\* C11: the url list of discoverProjects never holds a url twice and is in
\* order of first discovery: the urls of the page being processed come last,
\* in the order of their first position among the links the contributing
\* selector (primary or fallback) matched, none of these links is left out,
\* earlier entries are never moved or dropped, and the returned list is the
\* accumulated list from its start.
C11_DedupOrdered ==
    /\ NoDuplicates(allProjectUrls)
    /\ NoDuplicates(projectUrls)
    /\ pc = "paginate" =>
          /\ IsSuffix(pageProjectUrls, allProjectUrls)
          /\ Range(matched.links) \subseteq Range(allProjectUrls)
          /\ \A i \in 1..Len(pageProjectUrls) :
                FirstIndex(matched.links, pageProjectUrls[i]) > 0
          /\ \A i, j \in 1..Len(pageProjectUrls) :
                i < j => FirstIndex(matched.links, pageProjectUrls[i])
                             < FirstIndex(matched.links, pageProjectUrls[j])

C11_AppendStep ==
    \/ IsPrefix(allProjectUrls, allProjectUrls')
    \/ /\ pc = "loop"
       /\ ~hasMorePages
       /\ IsPrefix(projectUrls', allProjectUrls)

C11_UrlListDedupOrdered == []C11_DedupOrdered /\ [][C11_AppendStep]_vars

\* A fallback selector matched a url already listed and a new one on a later
\* page: the list holds three urls, the new one last
C11_Witness ==
    /\ pc = "paginate"
    /\ currentPage > 1
    /\ matched.selector = "fallback"
    /\ Len(matched.links) = 2
    /\ matched.links[1] \in Range(SubSeq(allProjectUrls, 1, 2))
    /\ Len(allProjectUrls) = 3
    /\ pageProjectUrls = <<matched.links[2]>>

\* C12 as stated: a run that finishes normally (exit status 0) has written the
\* dataset, and a run that aborts has written nothing.
C12_WritesOrAborts ==
    /\ exitCode = <<0>> => dataset.written
    /\ exitCode = <<1>> => ~dataset.written

\* C12 as amended: a run that finishes normally has written the dataset, in
\* full (record list, count and statistics of this run), exactly when
\* discoverProjects returned at least one url; a run that aborts before or in
\* saveData has written nothing.
C12_WritesUnlessNothingFound ==
    /\ exitCode = <<0>> => (dataset.written <=> Len(projectUrls) > 0)
    /\ dataset.written =>
          /\ dataset.projects = projects
          /\ dataset.totalProjects = Len(projects)
          /\ dataset.scrapingStats = stats
    /\ (thrown # <<>> /\ thrown[1] # "close") => ~dataset.written

\* A run has ended with exit status 0 and a dataset of two records
C12_Witness ==
    /\ exitCode = <<0>>
    /\ dataset.written
    /\ dataset.totalProjects = 2

\* C13 as stated: the process exits non-zero only when initBrowser failed.
C13_OnlyInitBrowserFatal ==
    exitCode = <<1>> => "initBrowser" \in Range(thrown)

FatalSteps == {"initBrowser", "connectivity", "saveData", "close"}

\* C13 as amended: the process exits non-zero exactly when initBrowser, the
\* connectivity test, saveData or browser.close failed; a listing fetch error,
\* a detail-page error or a QR failure throws nothing out of scrape(), and the
\* run goes on to exit status 0 unless one of those four steps fails.
C13_FatalFailures ==
    /\ Range(thrown) \subseteq FatalSteps
    /\ exitCode = <<1>> <=> (pc = "done" /\ thrown # <<>>)
    /\ exitCode = <<0>> <=> (pc = "done" /\ thrown = <<>>)
    /\ (thrown # <<>>) => pc \in {"finally", "done"}

\* A run with a failed detail page and a failed QR code has ended with exit
\* status 0
C13_Witness ==
    /\ exitCode = <<0>>
    /\ stats.errors > 0
    /\ \E j \in 1..Len(dataset.projects) : dataset.projects[j].qrCode = "null"

\* C14: a failure while scraping one url counts one error, adds no record,
\* leaves the records accepted earlier alone and does not stop the loop: every
\* url of the discovered list is processed, in order.
C14_FailureStep ==
    (index' = index + 1 /\ ~extracted'[index'].scraped) =>
        /\ stats'.errors = stats.errors + 1
        /\ stats'.projectsScraped = stats.projectsScraped
        /\ projects' = projects
        /\ thrown' = thrown
        /\ projectUrls' = projectUrls
        /\ pc' = IF index' < Len(projectUrls) THEN "scrape" ELSE "save"

C14_AllProcessed ==
    /\ Len(extracted) = index
    /\ \A i \in 1..index : extracted[i].url = projectUrls[i]
    /\ \A j \in 1..Len(projects) :
          \E i \in 1..index : extracted[i].scraped /\ extracted[i].url = projects[j].url
    /\ pc \in {"save", "finally", "done"} => index = Len(projectUrls)

C14_FailureIsolated == [][C14_FailureStep]_vars /\ []C14_AllProcessed

\* The second of three urls failed: the first and the third are in the list
C14_Witness ==
    /\ pc = "save"
    /\ Len(projectUrls) = 3
    /\ extracted[1].scraped
    /\ ~extracted[2].scraped
    /\ extracted[3].scraped
    /\ stats.errors = 1
    /\ Len(projects) = 2
    /\ projects[1].url = projectUrls[1]
    /\ projects[2].url = projectUrls[3]

\* C15: every fetched page that carries the interstitial signature gets
\* exactly one recovery attempt, whatever the environment.
C15_OneRecoveryPerChallenge ==
    recovery.signature => recovery.attempts = 1

C18_Stopped ==
    pageError # "none" =>
        /\ pc = "loop"
        /\ ~hasMorePages
        /\ pagesFetched = currentPage

C18_FailStep ==
    /\ (pageError = "none" /\ pageError' # "none") =>
          /\ allProjectUrls' = allProjectUrls
          /\ currentPage' = currentPage
          /\ pagesFetched' = pagesFetched + 1
    /\ pageError # "none" =>
          /\ projectUrls' = capUrls(config, allProjectUrls)
          /\ Len(allProjectUrls) <= devMaxProjects => projectUrls' = allProjectUrls
          /\ pc' = IF Len(allProjectUrls) > 0 THEN "scrape" ELSE "finally"

C18_FetchErrorStops == []C18_Stopped /\ [][C18_FailStep]_vars

\* The fetch of page 2 failed with two urls collected from page 1
C18_Witness ==
    /\ pageError = "other"
    /\ currentPage = 2
    /\ Len(allProjectUrls) = 2

\* C19: with the development cap C = 5 and n urls discovered, discoverProjects
\* returns exactly the first min(C, n) urls of the discovery order, and at most
\* C detail pages are scraped; without a cap it returns all n urls.
C19_ReturnStep ==
    (pc = "loop" /\ pc' # "loop") =>
        LET n == Len(allProjectUrls)
            k == IF config.maxProjects # null THEN Min2(devMaxProjects, n) ELSE n
        IN  /\ Len(projectUrls') = k
            /\ \A i \in 1..k : projectUrls'[i] = allProjectUrls[i]
            /\ stats'.projectsFound = n

C19_AtMostCap ==
    /\ config.maxProjects # null => (index <= devMaxProjects /\ Len(extracted) <= devMaxProjects)
    /\ pc \in {"save", "finally", "done"} =>
          index = (IF config.maxProjects # null
                   THEN Min2(devMaxProjects, stats.projectsFound)
                   ELSE stats.projectsFound)

C19_OutputCap == [][C19_ReturnStep]_vars /\ []C19_AtMostCap

\* Seven urls were discovered in development mode and the loop has ended after
\* the first five of them
C19_Witness ==
    /\ config.maxProjects # null
    /\ pc = "save"
    /\ stats.projectsFound > devMaxProjects
    /\ index = devMaxProjects
    /\ \A i \in 1..devMaxProjects : extracted[i].url = NumberedUrl(i)

\* A tag, trimmed and lowercased, contains a configured excluded tag or is
\* contained in one
MatchesExcluded(tag) ==
    \E e \in 1..Len(config.excludedTags) :
        LET t == trim(toLowerCase(tag))
            x == toLowerCase(config.excludedTags[e])
        IN  includes(t, x) \/ includes(x, t)

\* C21: every record of the persisted dataset carries exactly the tags
\* extracted from its page, in their order, minus every tag that contains or is
\* contained in an excluded tag; no persisted tag matches an excluded tag.
C21_PersistedTags ==
    dataset.written =>
        \A j \in 1..Len(dataset.projects) :
            \E i \in 1..Len(extracted) :
                /\ extracted[i].url = dataset.projects[j].url
                /\ extracted[i].scraped
                /\ LET orig == extracted[i].tags
                       out == dataset.projects[j].tags
                       kept == {k \in 1..Len(orig) : ~MatchesExcluded(orig[k])}
                   IN  /\ Len(out) = Cardinality(kept)
                       /\ \A k \in kept :
                             out[Cardinality({m \in kept : m <= k})] = orig[k]
                       /\ \A t \in 1..Len(out) : ~MatchesExcluded(out[t])

\* A record extracted with four tags is persisted with the second (it contains
\* "makerspace") and the third (contained in "fablab") removed
C21_Witness ==
    /\ dataset.written
    /\ \E i \in 1..Len(extracted), j \in 1..Len(dataset.projects) :
          /\ extracted[i].url = dataset.projects[j].url
          /\ extracted[i].tags = <<Str_Robotics, Str_Makerspace_Project, Str_Fab, Str_Laser>>
          /\ dataset.projects[j].tags = <<Str_Robotics, Str_Laser>>

\* browser.close() was called: it resolved, or it threw
CloseCalls ==
    (IF browser = "closed" THEN 1 ELSE 0)
        + Cardinality({i \in 1..Len(thrown) : thrown[i] = "close"})

\* C23: on every path out of scrape() after the browser was launched (dataset
\* saved, early return, a failure thrown), browser.close() is performed exactly
\* once, after the last page fetch and before the process exits; it is not
\* performed while the run still fetches pages.
C23_BrowserClosedOnce ==
    /\ (exitCode # <<>> /\ browser # "null") => CloseCalls = 1
    /\ browser = "null" => CloseCalls = 0
    /\ pc # "done" => CloseCalls = 0
    /\ pc = "done" => exitCode # <<>>

\* saveData failed after the scrape loop and the browser was closed before the
\* exit with status 1
C23_Witness ==
    /\ exitCode = <<1>>
    /\ thrown = <<"saveData">>
    /\ index > 0
    /\ browser = "closed"

\* C24: each processed detail url has incremented exactly one of
\* stats.projectsScraped and stats.errors, so the saved statistics satisfy
\* projectsScraped + errors = number of detail urls processed and
\* totalProjects <= projectsScraped <= projectsFound.
C24_StatsConsistent ==
    /\ stats.projectsScraped = Cardinality({i \in 1..Len(extracted) : extracted[i].scraped})
    /\ stats.errors = Cardinality({i \in 1..Len(extracted) : ~extracted[i].scraped})
    /\ stats.projectsScraped + stats.errors = index
    /\ dataset.written =>
          /\ dataset.scrapingStats.projectsScraped + dataset.scrapingStats.errors
                 = Len(projectUrls)
          /\ dataset.totalProjects = Len(dataset.projects)
          /\ dataset.totalProjects <= dataset.scrapingStats.projectsScraped
          /\ dataset.scrapingStats.projectsScraped <= dataset.scrapingStats.projectsFound

\* Of three urls found, one failed, two were scraped and one of these was
\* filtered out
C24_Witness ==
    /\ dataset.written
    /\ dataset.scrapingStats = [projectsFound |-> 3, projectsScraped |-> 2, errors |-> 1]
    /\ dataset.totalProjects = 1

\* C9: a scraped record is in this.projects (and in the written dataset)
\* exactly when the tag filter accepts the tag list scrapeProject extracted,
\* whatever filterTags then strips from the persisted tag list.
C9_DecisionOnOriginalTags ==
    /\ \A i \in 1..Len(extracted) :
          (\E j \in 1..Len(projects) : projects[j].url = extracted[i].url) <=>
              (extracted[i].scraped /\ matchesTagFilter(config, extracted[i].tags))
    /\ dataset.written => dataset.projects = projects

\* A record whose only tag, makerspace, matched and was stripped is persisted
\* with an empty tag list
C9_Witness ==
    /\ dataset.written
    /\ config.tagFilter.mode = "any"
    /\ \E i \in 1..Len(extracted), j \in 1..Len(dataset.projects) :
          /\ extracted[i].url = dataset.projects[j].url
          /\ extracted[i].tags = <<Str_makerspace>>
          /\ dataset.projects[j].tags = <<>>

----------------------------------------------------------------------------
(* Properties of the tag extraction, checked under SpecTagExtraction *)

RECURSIVE MergeCandidates(_, _, _)
\* The merge of the candidates in which a trimmed candidate is dropped exactly
\* when it is empty, longer than maxLength or already in the list
MergeCandidates(list, texts, maxLength) ==
    IF texts = <<>> THEN list
    ELSE LET t == trim(Head(texts))
             drop == Len(t) = 0 \/ Len(t) > maxLength \/ t \in Range(list)
         IN  MergeCandidates(IF drop THEN list ELSE Append(list, t), Tail(texts),
                             maxLength)

\* C22 as stated: the tag list is the merge of the tag-link candidates and
\* then the "tagged ..." candidates in which a candidate is discarded exactly
\* when it is empty, longer than 50 characters or already present (one of
\* exactly 50 characters is kept); the list has no duplicates.
C22_TagMerge ==
    tagsResult # <<>> =>
        /\ tagsResult[1] =
               MergeCandidates(<<>>, tagCandidates.links \o tagCandidates.text, 50)
        /\ NoDuplicates(tagsResult[1])

\* C22 as amended: a candidate is discarded exactly when it is empty, 50
\* characters long or longer, or already present; one of 49 characters is
\* kept; the list has no duplicates and keeps the order of first discovery.
C22_TagMergeBelowLimit ==
    tagsResult # <<>> =>
        /\ tagsResult[1] =
               MergeCandidates(<<>>, tagCandidates.links \o tagCandidates.text, 49)
        /\ NoDuplicates(tagsResult[1])
        /\ \A i \in 1..Len(tagsResult[1]) : Len(tagsResult[1][i]) \in 1..49

\* Of a 50-character and a 49-character tag link and a "tagged" piece, the
\* 50-character one was dropped and the others kept in order
C22_Witness ==
    /\ Len(tagCandidates.links) = 2
    /\ Len(tagCandidates.links[1]) = 50
    /\ Len(tagCandidates.links[2]) = 49
    /\ tagCandidates.text = <<Str_Laser>>
    /\ tagsResult = <<<<tagCandidates.links[2], Str_Laser>>>>

----------------------------------------------------------------------------
(* Properties of matchesTagFilter, checked under SpecTagFilter *)

\* Some required tag, normalised, is a substring of some tag, normalised
SomeRequiredMatches(required, tagList) ==
    \E r \in Range(required), t \in Range(tagList) :
        includes(normalizeTag(t), normalizeTag(r))

\* Every required tag, normalised, is a substring of some tag, normalised
EveryRequiredMatches(required, tagList) ==
    \A r \in Range(required) : \E t \in Range(tagList) :
        includes(normalizeTag(t), normalizeTag(r))

\* C7: with filtering enabled in mode 'any' a record is included if and only if
\* it has at least one tag and some required tag (lowercased, trimmed) is a
\* substring of one of its tags (lowercased, trimmed); with filtering disabled
\* every record is included.
C7_AnyMode ==
    matchResult # <<>> =>
        /\ ~config.tagFilter.enabled => matchResult[1]
        /\ (config.tagFilter.enabled /\ config.tagFilter.mode = "any") =>
              (matchResult[1] <=>
                  /\ Len(argTags) > 0
                  /\ SomeRequiredMatches(config.tagFilter.requiredTags, argTags))

\* tags [Makerspace Project, Robotics] with required [makerspace] is included
C7_Witness ==
    /\ matchResult = <<TRUE>>
    /\ config.tagFilter.enabled
    /\ config.tagFilter.mode = "any"
    /\ config.tagFilter.requiredTags = <<Str_makerspace>>
    /\ argTags = <<Str_Makerspace_Project, Str_Robotics>>

\* C8: with filtering enabled in mode 'all' a record is included if and only if
\* it has at least one tag and every required tag is a case-insensitive
\* substring of one of its tags; a record with zero tags is excluded even when
\* no tag is required.
C8_AllMode ==
    (matchResult # <<>> /\ config.tagFilter.enabled /\ config.tagFilter.mode = "all") =>
        (matchResult[1] <=>
            /\ Len(argTags) > 0
            /\ EveryRequiredMatches(config.tagFilter.requiredTags, argTags))

\* A record matching only one of two required tags is excluded
C8_Witness ==
    /\ matchResult = <<FALSE>>
    /\ config.tagFilter.enabled
    /\ config.tagFilter.mode = "all"
    /\ config.tagFilter.requiredTags = <<<<"a">>, <<"b">>>>
    /\ argTags = <<<<"A", " ">>>>

----------------------------------------------------------------------------
(* Properties of generateProjectId, checked under SpecProjectId *)

\* C10 as stated: the id is lowercase, holds no non-alphanumeric character and
\* is at most 50 characters long.
C10_IdAlphanumeric ==
    idResult # <<>> =>
        /\ Len(idResult[1]) <= 50
        /\ \A i \in 1..Len(idResult[1]) :
              idResult[1][i] \in Range(LowerLetters) \cup Range(Digits)

\* C10 as amended: the id is lowercase, holds no character other than a-z, 0-9
\* and the hyphen that replaces every non-alphanumeric character, and is at
\* most 50 characters long.
C10_IdSlug ==
    idResult # <<>> =>
        /\ Len(idResult[1]) <= 50
        /\ \A i \in 1..Len(idResult[1]) :
              idResult[1][i] \in Range(LowerLetters) \cup Range(Digits) \cup {"-"}

\* A long url with upper-case letters and separators: the id is cut to 50
\* characters and carries hyphens
C10_Witness ==
    /\ idResult # <<>>
    /\ Len(idResult[1]) = 50
    /\ "-" \in Range(idResult[1])
    /\ indexOf(argUrl, baseUrl) = 0
    /\ Range(argUrl) \cap Range(UpperLetters) # {}

====
